---- MODULE Spec2Model ----
(***************************************************************************)
(* Model of fastapi_fatigue_analysis.py: the fatigue evaluator             *)
(* analyze_fatigue and the two endpoints that call it, /analyze            *)
(* (run_fatigue_analysis) and /analyze_batch (run_batch_analysis).         *)
(*                                                                         *)
(* Numbers.  Python floats are modelled by exact rationals [n, d] in       *)
(* lowest terms with d > 0; the arithmetic follows the order of the        *)
(* source expressions.  Strings are sequences of character codes, so that  *)
(* str.lower(), f-string formatting and str(int) are modelled by what they *)
(* do.  An Optional[float] is a sequence of length 0 (None) or 1.          *)
(***************************************************************************)
EXTENDS Integers, Sequences, FiniteSets, TLC

VARIABLES
    pc,          \* "idle" before a request, "done" once its handler has finished
    endpoint,    \* the route of the request: "analyze" or "analyze_batch"
    request,     \* the request body as sent: a sequence of payloads
    input_data,  \* the handler's input_data: the FatigueInput objects built from it
    i,           \* run_batch_analysis: the 0-based loop index when the handler ends
    results,     \* run_batch_analysis: the local list results when the handler ends
    calls,       \* the outcomes of the handler's analyze_fatigue calls, in order
    response     \* the handler's answer: the returned body or the HTTPException

vars == <<pc, endpoint, request, input_data, i, results, calls, response>>

(***************************************************************************)
(* Bounds of the model.                                                    *)
(***************************************************************************)
MaxBatch == 3

(***************************************************************************)
(* Rational arithmetic standing for Python float arithmetic.               *)
(***************************************************************************)
Abs(x) == IF x < 0 THEN -x ELSE x

RECURSIVE GCD(_, _)
GCD(a, b) == IF b = 0 THEN a ELSE GCD(b, a % b)

Rat(n, d) ==
    LET g == GCD(Abs(n), Abs(d))
        s == IF d < 0 THEN -1 ELSE 1
    IN  [n |-> s * (n \div g), d |-> s * (d \div g)]

Num(k) == [n |-> k, d |-> 1]

RSub(a, b) == Rat(a.n * b.d - b.n * a.d, a.d * b.d)

RMul(a, b) ==
    LET g1 == GCD(Abs(a.n), b.d)
        g2 == GCD(Abs(b.n), a.d)
    IN  Rat((a.n \div g1) * (b.n \div g2), (a.d \div g2) * (b.d \div g1))

\* a / b for b # 0 (the callers raise ZeroDivisionError when b = 0)
RDiv(a, b) == RMul(a, Rat(b.d, b.n))

RLeq(a, b) == a.n * b.d <= b.n * a.d

RGeq(a, b) == a.n * b.d >= b.n * a.d

RPow3(a) == [n |-> a.n * a.n * a.n, d |-> a.d * a.d * a.d]

(***************************************************************************)
(* Strings as sequences of character codes.                                *)
(***************************************************************************)
LowerChar(c) == IF c >= 65 /\ c <= 90 THEN c + 32 ELSE c

\* str.lower()
lower(s) == [k \in 1..Len(s) |-> LowerChar(s[k])]

RECURSIVE str_int(_)
\* str(n) for an integer n >= 0: its decimal digits
str_int(n) == IF n < 10 THEN <<48 + n>> ELSE str_int(n \div 10) \o <<48 + (n % 10)>>

s_steel    == <<115, 116, 101, 101, 108>>                      \* "steel"
s_aluminum == <<97, 108, 117, 109, 105, 110, 117, 109>>        \* "aluminum"

(***************************************************************************)
(* analyze_fatigue                                                         *)
(***************************************************************************)
material_props ==
    [m \in {s_steel, s_aluminum} |->
        IF m = s_steel
        THEN [endurance_limit |-> 200, fatigue_strength_coeff |-> 900]
        ELSE [endurance_limit |-> 130, fatigue_strength_coeff |-> 620]]

INFINITE_LIFE == 10000000

ANALYSIS_METHOD == "Simplified S-N Curve with Goodman Correction"

DEFAULT_SAFETY_FACTOR == <<Num(2)>>

\* the model constructor: safety_factor defaults to 2.0 when the field is omitted
FatigueInput(payload) ==
    [stress_amplitude |-> payload.stress_amplitude,
     mean_stress      |-> payload.mean_stress,
     cycles           |-> payload.cycles,
     material         |-> payload.material,
     safety_factor    |-> IF "safety_factor" \in DOMAIN payload
                          THEN payload.safety_factor
                          ELSE DEFAULT_SAFETY_FACTOR]

Raise(cls, msg) == [raised |-> TRUE, cls |-> cls, msg |-> msg]

Return(value) == [raised |-> FALSE, result |-> value]

\* f"Material '{data.material}' not supported", with the lowered identifier
UnsupportedMsgLowered(material) ==
    <<77, 97, 116, 101, 114, 105, 97, 108, 32, 39>> \o lower(material)
        \o <<39, 32, 110, 111, 116, 32, 115, 117, 112, 112, 111, 114, 116, 101, 100>>

\* f"Material '{data.material}' not supported"
UnsupportedMsg(material) ==
    <<77, 97, 116, 101, 114, 105, 97, 108, 32, 39>> \o material
        \o <<39, 32, 110, 111, 116, 32, 115, 117, 112, 112, 111, 114, 116, 101, 100>>

\* str(e) of the ZeroDivisionError of float / float: "float division by zero"
FloatDivMsg ==
    <<102, 108, 111, 97, 116, 32, 100, 105, 118, 105, 115, 105, 111, 110, 32,
      98, 121, 32, 122, 101, 114, 111>>

\* str(e) of the ZeroDivisionError of int / int: "division by zero"
IntDivMsg ==
    <<100, 105, 118, 105, 115, 105, 111, 110, 32, 98, 121, 32, 122, 101, 114, 111>>

\* str(e) of the TypeError of float >= None:
\* "'>=' not supported between instances of 'float' and 'NoneType'"
NoneCmpMsg ==
    <<39, 62, 61, 39, 32, 110, 111, 116, 32, 115, 117, 112, 112, 111, 114, 116,
      101, 100, 32, 98, 101, 116, 119, 101, 101, 110, 32, 105, 110, 115, 116,
      97, 110, 99, 101, 115, 32, 111, 102, 32, 39, 102, 108, 111, 97, 116, 39,
      32, 97, 110, 100, 32, 39, 78, 111, 110, 101, 84, 121, 112, 101, 39>>

\* the Goodman denominator taken against the endurance limit
goodman_denominator_limit(data, props) ==
    RSub(Num(1), RDiv(data.mean_stress, Num(props.endurance_limit)))

\* 1 - data.mean_stress / props["fatigue_strength_coeff"]
goodman_denominator(data, props) ==
    RSub(Num(1), RDiv(data.mean_stress, Num(props.fatigue_strength_coeff)))

\* the endurance test with a strict comparison
infinite_life_strict(equivalent_stress, props) ==
    ~ RLeq(Num(props.endurance_limit), equivalent_stress)

\* equivalent_stress <= props["endurance_limit"]
infinite_life(equivalent_stress, props) ==
    RLeq(equivalent_stress, Num(props.endurance_limit))

\* round(x): to the nearest integer
int_nearest(x) == (2 * x.n + x.d) \div (2 * x.d)

\* int(x) of a float: truncation toward zero
int(x) == IF x.n >= 0 THEN x.n \div x.d ELSE -((-x.n) \div x.d)

\* the power law with exponent 2
power_law_square(equivalent_stress, props) ==
    LET r == RDiv(Num(props.fatigue_strength_coeff), equivalent_stress)
    IN  RMul(RMul(r, r), Num(1000))

\* (props["fatigue_strength_coeff"] / equivalent_stress) ** 3 * 1000
power_law(equivalent_stress, props) ==
    RMul(RPow3(RDiv(Num(props.fatigue_strength_coeff), equivalent_stress)), Num(1000))

\* cycles_to_failure // data.cycles
margin_floor_div(cycles_to_failure, cycles) == Num(cycles_to_failure \div cycles)

\* cycles_to_failure / data.cycles for cycles # 0: true division
margin(cycles_to_failure, cycles) == Rat(cycles_to_failure, cycles)

analyze_fatigue(data) ==
    IF lower(data.material) \notin DOMAIN material_props
    THEN Raise("ValueError", UnsupportedMsg(data.material))
    ELSE
    LET props == material_props[lower(data.material)]
        denom == goodman_denominator(data, props)
    IN  IF denom.n = 0
        THEN Raise("ZeroDivisionError", FloatDivMsg)
        ELSE
        LET equivalent_stress == RDiv(data.stress_amplitude, denom)
            cycles_to_failure ==
                IF infinite_life(equivalent_stress, props)
                THEN INFINITE_LIFE
                ELSE int(power_law(equivalent_stress, props))
        IN  IF data.cycles = 0
            THEN Raise("ZeroDivisionError", IntDivMsg)
            ELSE
            LET safety_margin == margin(cycles_to_failure, data.cycles)
            IN  IF data.safety_factor = <<>>
                THEN Raise("TypeError", NoneCmpMsg)
                ELSE Return([cycles_to_failure |-> cycles_to_failure,
                             safety_margin     |-> safety_margin,
                             is_safe           |-> RGeq(safety_margin, data.safety_factor[1]),
                             analysis_method   |-> ANALYSIS_METHOD])

(***************************************************************************)
(* Requests                                                                *)
(***************************************************************************)
s_Steel    == <<83, 116, 101, 101, 108>>                       \* "Steel"
s_ALUMINUM == <<65, 76, 85, 77, 73, 78, 85, 77>>               \* "ALUMINUM"
s_titanium == <<116, 105, 116, 97, 110, 105, 117, 109>>        \* "titanium"
s_Titanium == <<84, 105, 116, 97, 110, 105, 117, 109>>         \* "Titanium"

Materials == {s_steel, s_Steel, s_aluminum, s_ALUMINUM, s_titanium, s_Titanium}

StressValues == {Num(k) : k \in {-300, -100, -10, 0, 100, 130, 150, 200, 250, 400, 1000}}

MeanValues == {Num(k) : k \in {-100, 0, 50, 450, 620, 900, 1000}}

CycleValues == {-1000, 0, 1, 3000, 50000, 100000}

SafetyFactors == {<<>>, <<Num(2)>>, <<Rat(1, 2)>>, <<Num(100)>>}

Payloads ==
    [stress_amplitude : StressValues, mean_stress : MeanValues,
     cycles : CycleValues, material : Materials, safety_factor : SafetyFactors]
    \cup
    [stress_amplitude : StressValues, mean_stress : MeanValues,
     cycles : CycleValues, material : Materials]

NoResponse == [status_code |-> 0, body |-> <<>>, detail |-> <<>>]

Init ==
    /\ pc = "idle"
    /\ endpoint = "none"
    /\ request = <<>>
    /\ input_data = <<>>
    /\ i = 0
    /\ results = <<>>
    /\ calls = <<>>
    /\ response = NoResponse

\* POST /analyze
run_fatigue_analysis ==
    /\ pc = "idle"
    /\ \E payload \in Payloads :
          LET data == FatigueInput(payload)
              out  == analyze_fatigue(data)
          IN  /\ request' = <<payload>>
              /\ input_data' = <<data>>
              /\ calls' = <<out>>
              /\ response' = IF out.raised
                             THEN [status_code |-> 400, body |-> <<>>, detail |-> out.msg]
                             ELSE [status_code |-> 200, body |-> <<out.result>>, detail |-> <<>>]
    /\ endpoint' = "analyze"
    /\ pc' = "done"
    /\ UNCHANGED <<i, results>>

\* the detail of the batch error with the 0-based index
batch_error_detail_zero_based(idx, e) ==
    <<69, 114, 114, 111, 114, 32, 105, 110, 32, 100, 97, 116, 97, 115, 101, 116, 32>>
        \o str_int(idx) \o <<58, 32>> \o e.msg

\* f"Error in dataset {i+1}: {str(e)}", idx the 0-based index of enumerate
batch_error_detail(idx, e) ==
    <<69, 114, 114, 111, 114, 32, 105, 110, 32, 100, 97, 116, 97, 115, 101, 116, 32>>
        \o str_int(idx + 1) \o <<58, 32>> \o e.msg

\* results.insert(0, result)
results_prepend(rs, result) == <<result>> \o rs

\* results.append(result)
results_append(rs, result) == Append(rs, result)

RECURSIVE batch_loop(_, _, _, _)
\* the for loop of run_batch_analysis from 0-based index idx on, with the
\* results and the analyze_fatigue calls made so far; yields the handler's
\* final locals and its response
batch_loop(inputs, idx, rs, cs) ==
    IF idx >= Len(inputs)
    THEN [i |-> idx, results |-> rs, calls |-> cs,
          response |-> [status_code |-> 200, body |-> rs, detail |-> <<>>]]
    ELSE
    LET out == analyze_fatigue(inputs[idx + 1])
    IN  IF out.raised
        THEN [i |-> idx, results |-> rs, calls |-> Append(cs, out),
              response |-> [status_code |-> 400, body |-> <<>>,
                            detail |-> batch_error_detail(idx, out)]]
        ELSE batch_loop(inputs, idx + 1, results_append(rs, out.result), Append(cs, out))

BatchCases ==
    { [stress_amplitude |-> Num(150), mean_stress |-> Num(0), cycles |-> 100000,
       material |-> s_steel, safety_factor |-> <<Num(2)>>],
      [stress_amplitude |-> Num(200), mean_stress |-> Num(50), cycles |-> 50000,
       material |-> s_ALUMINUM],
      [stress_amplitude |-> Num(400), mean_stress |-> Num(0), cycles |-> 3000,
       material |-> s_Steel, safety_factor |-> <<Num(2)>>],
      [stress_amplitude |-> Num(150), mean_stress |-> Num(0), cycles |-> 100000,
       material |-> s_Titanium, safety_factor |-> <<Num(2)>>],
      [stress_amplitude |-> Num(150), mean_stress |-> Num(0), cycles |-> 0,
       material |-> s_steel],
      [stress_amplitude |-> Num(100), mean_stress |-> Num(620), cycles |-> 3000,
       material |-> s_aluminum, safety_factor |-> <<Num(2)>>],
      [stress_amplitude |-> Num(150), mean_stress |-> Num(0), cycles |-> 100000,
       material |-> s_steel, safety_factor |-> <<>>] }

\* POST /analyze_batch
run_batch_analysis ==
    /\ pc = "idle"
    /\ \E n \in 0..MaxBatch : \E payloads \in [1..n -> BatchCases] :
          LET inputs == [k \in 1..n |-> FatigueInput(payloads[k])]
              final  == batch_loop(inputs, 0, <<>>, <<>>)
          IN  /\ request' = payloads
              /\ input_data' = inputs
              /\ i' = final.i
              /\ results' = final.results
              /\ calls' = final.calls
              /\ response' = final.response
    /\ endpoint' = "analyze_batch"
    /\ pc' = "done"

Next ==
    \/ run_fatigue_analysis
    \/ run_batch_analysis

Spec == Init /\ [][Next]_vars

(***************************************************************************)
(* Properties                                                              *)
(***************************************************************************)
\* sub occurs in s as a contiguous substring
Contains(s, sub) ==
    \E k \in 0..(Len(s) - Len(sub)) : SubSeq(s, k + 1, k + Len(sub)) = sub

Floor(x) == x.n \div x.d

Supported(data) == lower(data.material) \in {s_steel, s_aluminum}

Coeff(data) == IF lower(data.material) = s_steel THEN 900 ELSE 620

Limit(data) == IF lower(data.material) = s_steel THEN 200 ELSE 130

\* stress_amplitude / (1 - mean_stress / fatigue_strength_coefficient)
EquivalentStress(data) ==
    RDiv(data.stress_amplitude, RSub(Num(1), RDiv(data.mean_stress, Num(Coeff(data)))))

\* (fatigue_strength_coefficient / equivalent_stress)^3 * 1000
PowerLawValue(data) ==
    LET r == RDiv(Num(Coeff(data)), EquivalentStress(data))
    IN  RMul([n |-> r.n * r.n * r.n, d |-> r.d * r.d * r.d], Num(1000))

Done == pc = "done"

Single == pc = "done" /\ endpoint = "analyze"

Batch == pc = "done" /\ endpoint = "analyze_batch"

\* calls[k] is what analyze_fatigue did on input_data[k], under either endpoint
Evaluated == DOMAIN calls

Failing == {k \in DOMAIN input_data : analyze_fatigue(input_data[k]).raised}

FirstFailing == CHOOSE k \in Failing : \A j \in Failing : k <= j

\* C1: a batch with a failing case returns no results and fails with one
\* client error whose message names the 1-based position of the first failing
\* case and contains that case's error message; analyze_fatigue is called on
\* the cases up to the first failing one and on none after it.
C1_BatchFailFast ==
    (Batch /\ Failing # {}) =>
        /\ response.status_code = 400
        /\ response.body = <<>>
        /\ Contains(response.detail, <<48 + FirstFailing>>)
        /\ Contains(response.detail, calls[FirstFailing].msg)
        /\ Len(calls) = FirstFailing
        /\ calls[FirstFailing].raised
        /\ \A k \in 1..(FirstFailing - 1) : ~ calls[k].raised

C1_Witness ==
    /\ Batch
    /\ Len(input_data) = 3
    /\ Len(calls) = 2
    /\ ~ calls[1].raised
    /\ calls[2].raised /\ calls[2].cls = "ValueError"
    /\ Len(results) = 1
    /\ response.status_code = 400
    /\ response.body = <<>>

\* C2: a batch of N inputs that all evaluate without error returns exactly N
\* results, and result k is what analyze_fatigue returns for input k alone.
C2_BatchOrder ==
    (Batch /\ Failing = {}) =>
        /\ response.status_code = 200
        /\ Len(response.body) = Len(input_data)
        /\ \A k \in DOMAIN input_data :
              response.body[k] = analyze_fatigue(input_data[k]).result

C2_Witness ==
    /\ Batch
    /\ Failing = {}
    /\ Len(input_data) = 3
    /\ response.status_code = 200
    /\ response.body[1] # response.body[2]
    /\ response.body[2] # response.body[3]

\* C3: when the lower-cased material is not a key of the table, analyze_fatigue
\* raises the unsupported-material ValueError whose message contains the
\* identifier as given, whatever the other fields are.
C3_UnsupportedFirst ==
    Done => \A k \in Evaluated :
        ~ Supported(input_data[k]) =>
            /\ calls[k].raised
            /\ calls[k].cls = "ValueError"
            /\ Contains(calls[k].msg, input_data[k].material)

C3_Witness ==
    /\ Single
    /\ input_data[1].material = s_Titanium
    /\ input_data[1].cycles = 0
    /\ input_data[1].mean_stress = Num(900)
    /\ input_data[1].safety_factor = <<>>
    /\ calls[1].raised
    /\ calls[1].cls = "ValueError"

\* the exception analyze_fatigue raises for the Goodman singularity of the
\* material of data
SingularityError(data) ==
    analyze_fatigue([data EXCEPT !.mean_stress = Num(Coeff(data)), !.cycles = 1])

\* the exception analyze_fatigue raises for an unsupported material
UnsupportedError(data) == analyze_fatigue([data EXCEPT !.material = s_titanium])

\* C4: for a supported material and cycles = 0, analyze_fatigue fails with an
\* error of a kind of its own, different from the kind of the Goodman
\* singularity error and from the kind of the unsupported-material error.
C4_ZeroCyclesOwnError ==
    Done => \A k \in Evaluated :
        (Supported(input_data[k]) /\ input_data[k].cycles = 0) =>
            /\ calls[k].raised
            /\ calls[k].cls # SingularityError(input_data[k]).cls
            /\ calls[k].cls # UnsupportedError(input_data[k]).cls

\* C5: for a supported material and mean_stress equal to its fatigue-strength
\* coefficient, analyze_fatigue raises the ZeroDivisionError of the Goodman
\* division, for every stress_amplitude and every cycles value, and the
\* endpoint answers with a client error and no result.
C5_Singularity ==
    Done => \A k \in Evaluated :
        (Supported(input_data[k]) /\ input_data[k].mean_stress = Num(Coeff(input_data[k]))) =>
            /\ calls[k].raised
            /\ calls[k].cls = "ZeroDivisionError"
            /\ calls[k].msg = FloatDivMsg
            /\ response.status_code = 400
            /\ response.body = <<>>
            /\ Contains(response.detail, FloatDivMsg)

C5_Witness ==
    /\ Single
    /\ input_data[1].material = s_Steel
    /\ input_data[1].mean_stress = Num(900)
    /\ input_data[1].stress_amplitude = Num(0)
    /\ input_data[1].cycles = 0
    /\ calls[1].raised
    /\ calls[1].cls = "ZeroDivisionError"
    /\ response.status_code = 400

\* C6: in every result, cycles_to_failure = 10,000,000 exactly when
\* equivalent_stress <= endurance_limit.
C6_InfiniteLifeIff ==
    Done => \A k \in Evaluated :
        ~ calls[k].raised =>
            ( calls[k].result.cycles_to_failure = 10000000
              <=> RLeq(EquivalentStress(input_data[k]), Num(Limit(input_data[k]))) )

C6_Witness ==
    /\ Single
    /\ ~ calls[1].raised
    /\ input_data[1].material = s_steel
    /\ input_data[1].mean_stress = Num(450)
    /\ EquivalentStress(input_data[1]) = Num(200)
    /\ calls[1].result.cycles_to_failure = 10000000

\* C7: in every result with equivalent_stress > endurance_limit, the power-law
\* value is not negative and cycles_to_failure is its floor.
C7_PowerLawFloor ==
    Done => \A k \in Evaluated :
        ( /\ ~ calls[k].raised
          /\ ~ RLeq(EquivalentStress(input_data[k]), Num(Limit(input_data[k]))) ) =>
            /\ PowerLawValue(input_data[k]).n >= 0
            /\ calls[k].result.cycles_to_failure = Floor(PowerLawValue(input_data[k]))

\* a value whose fractional part is at least one half: 70615.70...
C7_Witness ==
    /\ Single
    /\ ~ calls[1].raised
    /\ input_data[1].material = s_aluminum
    /\ input_data[1].stress_amplitude = Num(150)
    /\ input_data[1].mean_stress = Num(0)
    /\ calls[1].result.cycles_to_failure = 70615
    /\ 2 * (PowerLawValue(input_data[1]).n % PowerLawValue(input_data[1]).d)
          >= PowerLawValue(input_data[1]).d

Scenario2(k) ==
    /\ k \in DOMAIN calls
    /\ "safety_factor" \notin DOMAIN request[k]
    /\ input_data[k].material = s_aluminum
    /\ input_data[k].stress_amplitude = Num(200)
    /\ input_data[k].mean_stress = Num(50)
    /\ input_data[k].cycles = 50000

\* C8 as stated: aluminum, 200, 50, 50,000 cycles, safety_factor omitted gives
\* cycles_to_failure = 23,120, safety_margin 0.4624 to four places, not safe.
C8_Scenario2_Original ==
    Single => ( Scenario2(1) =>
        /\ ~ calls[1].raised
        /\ calls[1].result.cycles_to_failure = 23120
        /\ RLeq(Rat(46235, 100000), calls[1].result.safety_margin)
        /\ RLeq(calls[1].result.safety_margin, Rat(46245, 100000))
        /\ ~ calls[1].result.is_safe )

\* C8 amended: the same input gives cycles_to_failure = 23,149,
\* safety_margin = 23149/50000 = 0.46298, not safe.
C8_Scenario2 ==
    Single => ( Scenario2(1) =>
        /\ ~ calls[1].raised
        /\ calls[1].result.cycles_to_failure = 23149
        /\ calls[1].result.safety_margin = Rat(23149, 50000)
        /\ ~ calls[1].result.is_safe )

C8_Witness ==
    /\ Single
    /\ Scenario2(1)
    /\ ~ calls[1].raised
    /\ calls[1].result.cycles_to_failure = 23149

\* C9: in every result, safety_margin is the real quotient of
\* cycles_to_failure by cycles and is_safe is safety_margin >= safety_factor,
\* the factor being 2 when the request omits it; negative cycles included.
C9_MarginVerdict ==
    Done => \A k \in Evaluated :
        ~ calls[k].raised =>
            LET r  == calls[k].result
                sf == IF "safety_factor" \in DOMAIN request[k]
                      THEN request[k].safety_factor[1]
                      ELSE Num(2)
            IN  /\ r.safety_margin = Rat(r.cycles_to_failure, input_data[k].cycles)
                /\ r.is_safe = RGeq(r.safety_margin, sf)

C9_Witness ==
    /\ Single
    /\ ~ calls[1].raised
    /\ "safety_factor" \notin DOMAIN request[1]
    /\ input_data[1].cycles = -1000
    /\ calls[1].result.cycles_to_failure = 23149
    /\ calls[1].result.safety_margin = Rat(-23149, 1000)
    /\ ~ calls[1].result.is_safe

\* C10: for a supported material, cycles # 0 and mean_stress greater than the
\* fatigue-strength coefficient, analyze_fatigue raises no error; a
\* stress_amplitude >= 0 gives cycles_to_failure = 10,000,000 and a negative
\* one is classified against the endurance limit as usual.
C10_NegativeDenominator ==
    Done => \A k \in Evaluated :
        ( /\ Supported(input_data[k])
          /\ input_data[k].cycles # 0
          /\ ~ RLeq(input_data[k].mean_stress, Num(Coeff(input_data[k]))) ) =>
            /\ ~ calls[k].raised
            /\ input_data[k].stress_amplitude.n >= 0 =>
                  calls[k].result.cycles_to_failure = 10000000
            /\ input_data[k].stress_amplitude.n < 0 =>
                  calls[k].result.cycles_to_failure =
                      IF RLeq(EquivalentStress(input_data[k]), Num(Limit(input_data[k])))
                      THEN 10000000
                      ELSE Floor(PowerLawValue(input_data[k]))
====
